---- MODULE Spec2Model ----
(***************************************************************************)
(* Model of hands-on/010_underfitting_overfitting_lazy.ipynb: polynomial   *)
(* fitting on noisy samples of a target function.                          *)
(*                                                                         *)
(* Numbers.  The notebook computes in IEEE doubles.  The model computes on *)
(* integers, on which +, -, * and ** of doubles are exact, and carries one *)
(* non-finite value, NaN, through every arithmetic operation.  The one     *)
(* division of the notebook (the mean of compute_errors) is kept as the    *)
(* pair numerator / denominator.                                           *)
(*                                                                         *)
(* Collaborators.  scipy.optimize.curve_fit and numpy.random are not part  *)
(* of the repository; they are modelled by their interface: what they are  *)
(* handed, and an answer chosen by the environment among the answers the   *)
(* interface allows.                                                       *)
(***************************************************************************)
EXTENDS Integers, Sequences, FiniteSets, TLC

(***************************************************************************)
(* Bounds of the model.                                                    *)
(***************************************************************************)
\* longest coefficient vector handed to fit_func / compute_errors directly
MaxLen == 3
\* most points of a sample set handed to compute_errors / compute_params
MaxPts == 2

(***************************************************************************)
(* Floats: an integer value, or NaN.                                       *)
(***************************************************************************)
Fin(n) == [nan |-> FALSE, v |-> n]
NaN == [nan |-> TRUE, v |-> 0]
IsFinite(a) == ~a.nan
FAdd(a, b) == IF a.nan \/ b.nan THEN NaN ELSE Fin(a.v + b.v)
FSub(a, b) == IF a.nan \/ b.nan THEN NaN ELSE Fin(a.v - b.v)
FMul(a, b) == IF a.nan \/ b.nan THEN NaN ELSE Fin(a.v * b.v)

Min(a, b) == IF a <= b THEN a ELSE b

\* x**i for an integer exponent i >= 0 (0**0 is 1)
RECURSIVE Pow(_, _)
Pow(x, i) == IF i = 0 THEN 1 ELSE x * Pow(x, i - 1)

\* the builtin sum(): starts from 0 and adds the items left to right
RECURSIVE SumFrom(_, _, _)
SumFrom(acc, s, k) == IF k > Len(s) THEN acc ELSE SumFrom(FAdd(acc, s[k]), s, k + 1)
PySum(s) == SumFrom(Fin(0), s, 1)

\* the builtin zip() of two sequences stops at the shorter one
ZipLen(s, t) == Min(Len(s), Len(t))

(***************************************************************************)
(* Outcomes of a call: a returned value or a raised exception.             *)
(***************************************************************************)
Return(val) == [kind |-> "return", val |-> val]
Raise(exc) == [kind |-> "raise", val |-> exc]

(***************************************************************************)
(* fit_func(x, *params)                                                    *)
(***************************************************************************)
fit_func_from1(x, params) ==
    LET x_facts == [i \in 1..Len(params) |-> Pow(x, i)]
        terms == [k \in 1..ZipLen(params, x_facts) |-> FMul(params[k], Fin(x_facts[k]))]
    IN  PySum(terms)

fit_func_guarded(x, params) ==
    LET x_facts == [i \in 1..Len(params) |-> Pow(x, i - 1)]
        terms == [k \in 1..ZipLen(params, x_facts) |-> FMul(params[k], Fin(x_facts[k]))]
    IN  IF Len(params) = 0 THEN NaN ELSE PySum(terms)

fit_func(x, params) ==
    LET x_facts == [i \in 1..Len(params) |-> Pow(x, i - 1)]
        terms == [k \in 1..ZipLen(params, x_facts) |-> FMul(params[k], Fin(x_facts[k]))]
    IN  PySum(terms)

\* a function passed as an argument is held by name and applied here
Call(func, x, params) == IF func = "fit_func" THEN fit_func(x, params) ELSE NaN

(***************************************************************************)
(* compute_errors(func, xs, ys, params)                                    *)
(***************************************************************************)
compute_errors_checked(func, xs, ys, params) ==
    LET sq(k) == LET d == FSub(Fin(ys[k]), Call(func, xs[k], params)) IN FMul(d, d)
        terms == [k \in 1..ZipLen(xs, ys) |-> sq(k)]
    IN  IF Len(xs) # Len(ys) THEN Raise("ValueError")
        ELSE IF Len(xs) = 0 THEN Raise("ZeroDivisionError")
        ELSE Return([num |-> PySum(terms), den |-> Len(xs)])

compute_errors_sse(func, xs, ys, params) ==
    LET sq(k) == LET d == FSub(Fin(ys[k]), Call(func, xs[k], params)) IN FMul(d, d)
        terms == [k \in 1..ZipLen(xs, ys) |-> sq(k)]
    IN  IF Len(xs) = 0 THEN Raise("ZeroDivisionError")
        ELSE Return([num |-> PySum(terms), den |-> 1])

compute_errors(func, xs, ys, params) ==
    LET sq(k) == LET d == FSub(Fin(ys[k]), Call(func, xs[k], params)) IN FMul(d, d)
        terms == [k \in 1..ZipLen(xs, ys) |-> sq(k)]
    IN  IF Len(xs) = 0 THEN Raise("ZeroDivisionError")
        ELSE Return([num |-> PySum(terms), den |-> Len(xs)])

(***************************************************************************)
(* target_function(x), applied to an array element by element              *)
(***************************************************************************)
target_function(x) == 0 - ((x + 1) * (x - 5))
Apply(func, xarr) ==
    [k \in 1..Len(xarr) |-> IF func = "target_function" THEN target_function(xarr[k]) ELSE 0]

(***************************************************************************)
(* numpy.random: one process-wide stream.  The generator is a recurrence   *)
(* on its state (here a small linear congruence); seeding sets the state   *)
(* from the seed alone, every variate drawn advances it by one step.       *)
(***************************************************************************)
\* number of states of the stream
Modulus == 8
\* np.random.seed(1234)
NotebookSeed == 1234
np_random_seed(seed, rng) == seed % Modulus
Step(state) == (5 * state + 3) % Modulus
RECURSIVE Advance(_, _)
Advance(state, n) == IF n <= 0 THEN state ELSE Advance(Step(state), n - 1)
\* the n raw draws that follow state
Draws(state, n) == [k \in 1..n |-> Advance(state, k)]

\* np.random.uniform(low, high, (size,)): low + (high - low) * u, u in [0, 1).
\* A negative size is refused.  high < low is documented as undefined: the
\* environment's choice `undef` says whether the call computes or refuses.
np_random_uniform(low, high, size, rng, undef) ==
    IF size < 0 THEN [out |-> Raise("ValueError"), rng |-> rng]
    ELSE IF high < low /\ undef = "raise" THEN [out |-> Raise("ValueError"), rng |-> rng]
    ELSE [out |-> Return([k \in 1..size |->
                     low + (((high - low) * Draws(rng, size)[k]) \div Modulus)]),
          rng |-> Advance(rng, size)]

\* np.random.normal(loc, scale, shape): loc + scale * g, g standard normal
np_random_normal(loc, scale, size, rng) ==
    [out |-> Return([k \in 1..size |-> loc + scale * ((Draws(rng, size)[k] % 3) - 1)]),
     rng |-> Advance(rng, size)]

(***************************************************************************)
(* generate_noisy_data(func, x_min, x_max, noise, nr_points)               *)
(* The result holds the outcome and the stream's state after the call.     *)
(***************************************************************************)
generate_noisy_data(func, x_min, x_max, noise, nr_points, rng, undef) ==
    LET ux == np_random_uniform(x_min, x_max, nr_points, rng, undef)
    IN  IF ux.out.kind = "raise" THEN [out |-> ux.out, rng |-> ux.rng]
        ELSE LET x == ux.out.val
                 nz == np_random_normal(0, noise, Len(x), ux.rng)
                 fx == Apply(func, x)
                 y == [k \in 1..Len(x) |-> fx[k] + nz.out.val[k]]
             IN  [out |-> Return([x |-> x, y |-> y]), rng |-> nz.rng]

(***************************************************************************)
(* scipy.optimize.curve_fit(f, xdata, ydata, p0), the external solver.     *)
(* Interface: it is handed the model function, the samples and the initial *)
(* guess; it answers with a parameter vector as long as the guess (and a   *)
(* covariance, ignored), or it fails.  A problem with more parameters than *)
(* points is under-determined and is a failure of the solver.  In every    *)
(* other case the answer `ans` is the environment's: a failure, or a       *)
(* vector whose entries may be non-finite.                                 *)
(***************************************************************************)
Ones(n) == [i \in 1..n |-> Fin(1)]
curve_fit(f, xdata, ydata, p0, ans) ==
    IF Len(xdata) = Len(ydata) /\ Len(p0) > Len(ydata) THEN Raise("TypeError")
    ELSE IF ans.kind = "raise" THEN Raise("RuntimeError")
    ELSE Return([popt |-> ans.popt, pcov |-> "pcov"])

\* the answers the environment may give for n parameters
SolverVectors(n) ==
    {[i \in 1..n |-> IF i = n THEN c ELSE d] : c \in {Fin(1), NaN}, d \in {Fin(0), Fin(1)}}
SolverAnswers(n) ==
    {[kind |-> "raise", popt |-> <<>>]} \cup {[kind |-> "return", popt |-> v] : v \in SolverVectors(n)}

(***************************************************************************)
(* compute_params(fit_func, xs, ys, degree)                                *)
(* The result holds the outcome and the calls made to the solver.          *)
(***************************************************************************)
compute_params_short_guess(f, xs, ys, degree, ans) ==
    LET p0 == Ones(degree)
        r == curve_fit(f, xs, ys, p0, ans)
    IN  [out |-> IF r.kind = "raise" THEN r ELSE Return(r.val.popt),
         solver |-> <<[f |-> f, xdata |-> xs, ydata |-> ys, p0 |-> p0]>>]

compute_params_checked(f, xs, ys, degree, ans) ==
    LET p0 == Ones(degree + 1)
        r == curve_fit(f, xs, ys, p0, ans)
    IN  IF Len(xs) # Len(ys) THEN [out |-> Raise("ValueError"), solver |-> <<>>]
        ELSE IF r.kind = "return" /\ \E i \in 1..Len(r.val.popt) : r.val.popt[i].nan
        THEN [out |-> Raise("RuntimeError"),
              solver |-> <<[f |-> f, xdata |-> xs, ydata |-> ys, p0 |-> p0]>>]
        ELSE [out |-> IF r.kind = "raise" THEN r ELSE Return(r.val.popt),
              solver |-> <<[f |-> f, xdata |-> xs, ydata |-> ys, p0 |-> p0]>>]

compute_params(f, xs, ys, degree, ans) ==
    LET p0 == Ones(degree + 1)
        r == curve_fit(f, xs, ys, p0, ans)
    IN  [out |-> IF r.kind = "raise" THEN r ELSE Return(r.val.popt),
         solver |-> <<[f |-> f, xdata |-> xs, ydata |-> ys, p0 |-> p0]>>]

(***************************************************************************)
(* State.                                                                  *)
(*   rng                      state of the process-wide random stream      *)
(*   op, args, out, solver    the last call made to one of the notebook's  *)
(*                            functions: its name, its arguments as they   *)
(*                            are after the call, its outcome, and the     *)
(*                            calls it made to the solver                  *)
(*   seed, since_seed, prev   the seed last given, the generator calls     *)
(*                            made since, and the generator call before    *)
(*                            the last one                                 *)
(*   pc, train, val, extra,   the notebook run from top to bottom: the     *)
(*   p_opts, errors, acc,     cell to run next, the names it has bound,    *)
(*   seedings                 the list a comprehension is building, and    *)
(*                            the number of np.random.seed calls           *)
(***************************************************************************)
VARIABLES rng, op, args, out, solver, seed, since_seed, prev,
          pc, train, val, extra, p_opts, errors, acc, seedings

vars == <<rng, op, args, out, solver, seed, since_seed, prev,
          pc, train, val, extra, p_opts, errors, acc, seedings>>
callVars == <<op, args, out, solver>>
genVars == <<seed, since_seed, prev>>
runVars == <<pc, train, val, extra, p_opts, errors, acc, seedings>>

Unbound == [def |-> FALSE, x |-> <<>>, y |-> <<>>]
NoCall == [op |-> "none"]

\* the state before anything has run: the stream in state r, and a the
\* arguments held ready for the first call
Fresh(r, a) ==
    /\ rng = r
    /\ op = "none" /\ args = a /\ out = Return(<<>>) /\ solver = <<>>
    /\ seed = 0 /\ since_seed = 0 /\ prev = NoCall
    /\ pc = "seed" /\ train = Unbound /\ val = Unbound /\ extra = Unbound
    /\ p_opts = <<>> /\ errors = <<>> /\ acc = <<>> /\ seedings = 0

(***************************************************************************)
(* One call of a function, on arguments of the caller's choice, made from  *)
(* the fresh state.  The fresh state holds the sample set (xs, ys) the     *)
(* call is made on, when the function takes one.                           *)
(***************************************************************************)
SeqUpTo(S, n) == UNION {[1..k -> S] : k \in 0..n}
XArgs == -2..2
CoefVals == {Fin(0 - 1), Fin(0), Fin(2), NaN}
ParamVecs == SeqUpTo(CoefVals, MaxLen)
SampleXs == SeqUpTo({0 - 1, 2}, MaxPts)
SampleYs == SeqUpTo({0, 3}, MaxPts)
Degrees == 0..MaxLen - 1

NoSamples == [given |-> FALSE, xs |-> <<>>, ys |-> <<>>]
SampleSets == [given : {TRUE}, xs : SampleXs, ys : SampleYs]

CallFitFunc ==
    \E x \in XArgs, params \in ParamVecs :
        /\ op = "none" /\ ~args.given
        /\ op' = "fit_func"
        /\ args' = [x |-> x, params |-> params]
        /\ out' = Return(fit_func(x, params))
        /\ solver' = <<>>
        /\ UNCHANGED <<rng, genVars, runVars>>

CallComputeErrors ==
    \E params \in ParamVecs :
        /\ op = "none" /\ args.given
        /\ op' = "compute_errors"
        /\ args' = [xs |-> args.xs, ys |-> args.ys, params |-> params]
        /\ out' = compute_errors("fit_func", args.xs, args.ys, params)
        /\ solver' = <<>>
        /\ UNCHANGED <<rng, genVars, runVars>>

CallComputeParams ==
    \E degree \in Degrees :
        \E ans \in SolverAnswers(degree + 1) :
            LET r == compute_params("fit_func", args.xs, args.ys, degree, ans)
            IN  /\ op = "none" /\ args.given
                /\ op' = "compute_params"
                /\ args' = [xs |-> args.xs, ys |-> args.ys, degree |-> degree, ans |-> ans]
                /\ out' = r.out
                /\ solver' = r.solver
                /\ UNCHANGED <<rng, genVars, runVars>>

Bounds == {0, 1, 3}
Noises == {0, 1}
Counts == (0 - 1)..MaxPts

CallGenerate ==
    \E x_min \in Bounds, x_max \in Bounds, noise \in Noises, nr_points \in Counts :
        \E undef \in {"compute", "raise"} :
            LET r == generate_noisy_data("target_function", x_min, x_max, noise, nr_points,
                                         rng, undef)
            IN  /\ op = "none" /\ ~args.given
                /\ op' = "generate_noisy_data"
                /\ args' = [x_min |-> x_min, x_max |-> x_max, noise |-> noise,
                            nr_points |-> nr_points, undef |-> undef, rng |-> rng]
                /\ out' = r.out
                /\ solver' = <<>>
                /\ rng' = r.rng
                /\ UNCHANGED <<genVars, runVars>>

CallsNext == CallFitFunc \/ CallComputeErrors \/ CallComputeParams \/ CallGenerate
\* the stream as the notebook seeds it
CallsInit ==
    \E a \in SampleSets \cup {NoSamples} : Fresh(np_random_seed(NotebookSeed, 0), a)
SpecCalls == CallsInit /\ [][CallsNext]_vars

(***************************************************************************)
(* The mathematics the claims compare the code with.                       *)
(***************************************************************************)
AllFinite(p) == \A i \in 1..Len(p) : IsFinite(p[i])

\* p[1] + p[2]*x + ... + p[d+1]*x^d by Horner's rule, from position k on
RECURSIVE Horner(_, _, _)
Horner(p, x, k) == IF k > Len(p) THEN 0 ELSE p[k].v + x * Horner(p, x, k + 1)
Poly(p, x) == Horner(p, x, 1)

\* the sum of the squared residuals of the points k..n
RECURSIVE SqResiduals(_, _, _, _, _)
SqResiduals(xs, ys, p, k, n) ==
    IF k > n THEN 0
    ELSE (ys[k] - Poly(p, xs[k])) * (ys[k] - Poly(p, xs[k])) + SqResiduals(xs, ys, p, k + 1, n)

(***************************************************************************)
(* C1: for every non-empty finite coefficient vector p and every x,        *)
(* fit_func(x, *p) returns p[0] + p[1]*x + ... + p[d]*x^d; a vector of     *)
(* length 1 gives the constant p[0].                                       *)
(***************************************************************************)
C1_PolynomialValue ==
    (op = "fit_func" /\ Len(args.params) >= 1 /\ AllFinite(args.params)) =>
        /\ out.kind = "return"
        /\ out.val = Fin(Poly(args.params, args.x))
        /\ Len(args.params) = 1 => out.val = args.params[1]

C1_Witness ==
    /\ op = "fit_func" /\ Len(args.params) = 3 /\ AllFinite(args.params)
    /\ args.params[3] = Fin(2) /\ args.params[2] = Fin(0 - 1) /\ args.x = 0 - 2
    /\ out.kind = "return"

(***************************************************************************)
(* C2: for every non-empty finite coefficient vector p and every sample    *)
(* set of n >= 1 points, compute_errors returns the sum of the squared     *)
(* residuals over all n points, divided by n; a vector that reproduces     *)
(* every y gives error 0.                                                  *)
(***************************************************************************)
C2_MeanSquaredError ==
    (/\ op = "compute_errors"
     /\ Len(args.xs) = Len(args.ys) /\ Len(args.xs) >= 1
     /\ Len(args.params) >= 1 /\ AllFinite(args.params)) =>
        LET n == Len(args.xs)
        IN  /\ out.kind = "return"
            /\ out.val = [num |-> Fin(SqResiduals(args.xs, args.ys, args.params, 1, n)),
                          den |-> n]
            /\ (\A i \in 1..n : args.ys[i] = Poly(args.params, args.xs[i]))
                    => out.val.num = Fin(0)

C2_Witness ==
    /\ op = "compute_errors" /\ Len(args.xs) = 2 /\ Len(args.ys) = 2
    /\ Len(args.params) = 2 /\ AllFinite(args.params)
    /\ out.kind = "return" /\ out.val.num.v > 0 /\ out.val.den = 2

(***************************************************************************)
(* C3: compute_params on a sample set of n points with degree + 1 > n ends *)
(* in a failure and returns no coefficient vector.                         *)
(***************************************************************************)
C3_UnderDeterminedFails ==
    (op = "compute_params" /\ Len(args.xs) = Len(args.ys)
                           /\ args.degree + 1 > Len(args.xs)) =>
        out.kind = "raise"

C3_Witness ==
    /\ op = "compute_params" /\ Len(args.xs) = 1 /\ Len(args.ys) = 1 /\ args.degree = 1
    /\ args.ans.kind = "return" /\ out.kind = "raise"

(***************************************************************************)
(* C4 as claimed: fit_func on an empty coefficient vector signals a        *)
(* failure and returns no value.                                           *)
(***************************************************************************)
C4_EmptyVectorRejected ==
    (op = "fit_func" /\ Len(args.params) = 0) => out.kind = "raise"

(***************************************************************************)
(* C4 amended: fit_func on an empty coefficient vector returns 0, the      *)
(* empty sum, for every x.                                                 *)
(***************************************************************************)
C4_EmptyVectorGivesZero ==
    (op = "fit_func" /\ Len(args.params) = 0) => (out.kind = "return" /\ out.val = Fin(0))

C4_Witness ==
    op = "fit_func" /\ Len(args.params) = 0 /\ args.x = 2 /\ out.kind = "return"

(***************************************************************************)
(* C5 as claimed: mismatched x/y lengths, a non-positive sample count and  *)
(* x_min > x_max are rejected before the solver is called: such a call     *)
(* fails, calls no solver and produces neither a sample set nor an error   *)
(* value.                                                                  *)
(***************************************************************************)
InvalidInput ==
    \/ op \in {"compute_errors", "compute_params"} /\ Len(args.xs) # Len(args.ys)
    \/ op = "generate_noisy_data" /\ (args.nr_points <= 0 \/ args.x_min > args.x_max)

C5_InvalidInputRejected ==
    InvalidInput => (out.kind = "raise" /\ solver = <<>>)

(***************************************************************************)
(* C5 amended: none of the three functions checks these inputs.            *)
(* compute_params calls the solver once, with the samples as given and the *)
(* all-ones guess, whatever their lengths.  compute_errors on mismatched   *)
(* lengths returns the squared residuals of the first min(|xs|, |ys|)      *)
(* pairs divided by |xs|, and fails only when xs is empty (division by     *)
(* zero).  generate_noisy_data hands its arguments to the random stream    *)
(* unchecked: a negative count is refused there, a count of 0 gives an     *)
(* empty sample set, and x_min > x_max gives a sample set of nr_points     *)
(* points whenever the stream computes it.                                 *)
(***************************************************************************)
C5_InputsAreNotChecked ==
    /\ op = "compute_params" =>
          solver = <<[f |-> "fit_func", xdata |-> args.xs, ydata |-> args.ys,
                      p0 |-> [i \in 1..args.degree + 1 |-> Fin(1)]]>>
    /\ (op = "compute_errors" /\ Len(args.xs) >= 1 /\ AllFinite(args.params)) =>
          /\ out.kind = "return"
          /\ out.val = [num |-> Fin(SqResiduals(args.xs, args.ys, args.params, 1,
                                                Min(Len(args.xs), Len(args.ys)))),
                        den |-> Len(args.xs)]
    /\ (op = "compute_errors" /\ Len(args.xs) = 0) =>
          (out.kind = "raise" /\ out.val = "ZeroDivisionError")
    /\ (op = "generate_noisy_data" /\ args.nr_points < 0) =>
          (out.kind = "raise" /\ rng = args.rng)
    /\ (op = "generate_noisy_data" /\ args.nr_points >= 0
            /\ (args.x_min <= args.x_max \/ args.undef = "compute")) =>
          /\ out.kind = "return"
          /\ Len(out.val.x) = args.nr_points /\ Len(out.val.y) = args.nr_points

C5_Witness ==
    /\ op = "compute_errors" /\ Len(args.xs) = 2 /\ Len(args.ys) = 1
    /\ AllFinite(args.params) /\ Len(args.params) = 2
    /\ out.kind = "return" /\ out.val.num.v > 0

(***************************************************************************)
(* C7 as claimed: when the solver hands back coefficients with a           *)
(* non-finite value, compute_params reports a failure; it never returns a  *)
(* vector with a non-finite value.                                         *)
(***************************************************************************)
C7_NonFiniteIsFailure ==
    op = "compute_params" =>
        /\ out.kind = "return" => AllFinite(out.val)

(***************************************************************************)
(* C7 amended: compute_params returns the solver's vector as the solver    *)
(* handed it back, non-finite values included; it reports a failure only   *)
(* when the solver itself fails.                                           *)
(***************************************************************************)
SolverFails ==
    \/ Len(args.xs) = Len(args.ys) /\ args.degree + 1 > Len(args.ys)
    \/ args.ans.kind = "raise"

C7_SolverAnswerPassedThrough ==
    op = "compute_params" =>
        IF SolverFails THEN out.kind = "raise"
        ELSE out.kind = "return" /\ out.val = args.ans.popt

C7_Witness ==
    /\ op = "compute_params" /\ out.kind = "return"
    /\ Len(out.val) = 2 /\ out.val[2] = NaN /\ IsFinite(out.val[1])

(***************************************************************************)
(* Seeding and generating, any number of times: np.random.seed(s) and      *)
(* generate_noisy_data on valid parameters.  since_seed counts the         *)
(* variates drawn since the stream was last seeded; prev keeps one of the  *)
(* earlier generator calls.                                                *)
(***************************************************************************)
\* most variates drawn after one seeding
MaxDrawn == 4
Seeds == {NotebookSeed, 4321}
ValidIntervals == {b \in Bounds \X Bounds : b[1] <= b[2]}

GenSeed_entropy(s) ==
    /\ rng' \in 0..Modulus - 1
    /\ seed' = s
    /\ since_seed' = 0
    /\ UNCHANGED <<callVars, prev, runVars>>

GenSeed(s) ==
    /\ rng' = np_random_seed(s, rng)
    /\ seed' = s
    /\ since_seed' = 0
    /\ UNCHANGED <<callVars, prev, runVars>>

GenCall ==
    \E b \in ValidIntervals, noise \in Noises, nr_points \in 1..MaxPts :
        LET r == generate_noisy_data("target_function", b[1], b[2], noise, nr_points,
                                     rng, "compute")
        IN  /\ since_seed + 2 * nr_points <= MaxDrawn
            /\ op' = "generate_noisy_data"
            /\ args' = [x_min |-> b[1], x_max |-> b[2], noise |-> noise,
                        nr_points |-> nr_points, seed |-> seed, drawn |-> since_seed]
            /\ out' = r.out
            /\ solver' = <<>>
            /\ rng' = r.rng
            /\ since_seed' = since_seed + 2 * nr_points
            /\ prev' \in {prev} \cup (IF op = "generate_noisy_data"
                                      THEN {[op |-> op, args |-> args, out |-> out]}
                                      ELSE {})
            /\ UNCHANGED <<seed, runVars>>

GenInit == \E r \in 0..Modulus - 1 : Fresh(r, <<>>)
GenNext == (\E s \in Seeds : GenSeed(s)) \/ GenCall
SpecGen == GenInit /\ [][GenNext]_vars

(***************************************************************************)
(* C6 as claimed: under one seed, two calls of generate_noisy_data with    *)
(* identical parameters (target function, x_min, x_max, noise, nr_points)  *)
(* produce identical sample sets.                                          *)
(***************************************************************************)
SameParameters(a, b) ==
    /\ a.x_min = b.x_min /\ a.x_max = b.x_max
    /\ a.noise = b.noise /\ a.nr_points = b.nr_points

Unit == 2
\* nr_points=20
NrPoints == 20
\* range(1, 7)
LastDegree == 6
\* noise=0.2, one tick of the y axis
NoiseTick == 1

CellOrder_fit_early ==
    <<"seed", "gen_train", "gen_val", "fit", "gen_extra", "err_val", "err_extra", "done">>
CellOrder == <<"seed", "gen_train", "gen_val", "gen_extra", "fit", "err_val", "err_extra", "done">>
After(cell) == CellOrder[(CHOOSE i \in 1..Len(CellOrder) : CellOrder[i] = cell) + 1]

Bind(sets) == [def |-> TRUE, x |-> sets.x, y |-> sets.y]

CellSeed ==
    /\ pc = "seed"
    /\ rng' = np_random_seed(NotebookSeed, rng)
    /\ seedings' = seedings + 1
    /\ pc' = After("seed")
    /\ UNCHANGED <<callVars, genVars, train, val, extra, p_opts, errors, acc>>

CellGenTrain ==
    /\ pc = "gen_train"
    /\ LET r == generate_noisy_data("target_function", 0, Unit, NoiseTick, NrPoints, rng, "compute")
       IN  /\ train' = Bind(r.out.val)
           /\ rng' = r.rng
    /\ pc' = After("gen_train")
    /\ UNCHANGED <<callVars, genVars, val, extra, p_opts, errors, acc, seedings>>

CellGenVal ==
    /\ pc = "gen_val"
    /\ LET r == generate_noisy_data("target_function", 0, Unit, NoiseTick, NrPoints, rng, "compute")
       IN  /\ val' = Bind(r.out.val)
           /\ rng' = r.rng
    /\ pc' = After("gen_val")
    /\ UNCHANGED <<callVars, genVars, train, extra, p_opts, errors, acc, seedings>>

CellGenExtra ==
    /\ pc = "gen_extra"
    /\ LET r == generate_noisy_data("target_function", Unit, (3 * Unit) \div 2, NoiseTick,
                                    NrPoints, rng, "compute")
       IN  /\ extra' = Bind(r.out.val)
           /\ rng' = r.rng
    /\ pc' = After("gen_extra")
    /\ UNCHANGED <<callVars, genVars, train, val, p_opts, errors, acc, seedings>>

\* p_opts = [compute_params(fit_func, x_train, y_train, degree) for degree in range(1, 7)]
CellFit_random_guess ==
    /\ pc = "fit"
    /\ LET degree == Len(acc) + 1
       IN  \E ans \in SolverAnswers(degree + 1) :
             LET r == compute_params("fit_func", train.x, train.y, degree, ans)
             IN  /\ solver' = r.solver
                 /\ rng' = Advance(rng, degree + 1)
                 /\ IF r.out.kind = "raise"
                    THEN pc' = "failed" /\ acc' = <<>> /\ p_opts' = p_opts
                    ELSE IF degree = LastDegree
                    THEN pc' = After("fit") /\ acc' = <<>> /\ p_opts' = Append(acc, r.out.val)
                    ELSE pc' = pc /\ acc' = Append(acc, r.out.val) /\ p_opts' = p_opts
    /\ UNCHANGED <<op, args, out, genVars, train, val, extra, errors, seedings>>

CellFit ==
    /\ pc = "fit"
    /\ LET degree == Len(acc) + 1
       IN  \E ans \in SolverAnswers(degree + 1) :
             LET r == compute_params("fit_func", train.x, train.y, degree, ans)
             IN  /\ solver' = r.solver
                 /\ IF r.out.kind = "raise"
                    THEN pc' = "failed" /\ acc' = <<>> /\ p_opts' = p_opts
                    ELSE IF degree = LastDegree
                    THEN pc' = After("fit") /\ acc' = <<>> /\ p_opts' = Append(acc, r.out.val)
                    ELSE pc' = pc /\ acc' = Append(acc, r.out.val) /\ p_opts' = p_opts
    /\ UNCHANGED <<rng, op, args, out, genVars, train, val, extra, errors, seedings>>

\* errors = [compute_errors(fit_func, xs, ys, p_opt) for p_opt in p_opts]
ErrorsCell(cell, sets) ==
    /\ pc = cell
    /\ IF Len(acc) = Len(p_opts)
       THEN pc' = After(cell) /\ acc' = <<>> /\ errors' = acc
       ELSE LET r == compute_errors("fit_func", sets.x, sets.y, p_opts[Len(acc) + 1])
            IN  IF r.kind = "raise"
                THEN pc' = "failed" /\ acc' = <<>> /\ errors' = errors
                ELSE pc' = pc /\ acc' = Append(acc, r.val) /\ errors' = errors
    /\ UNCHANGED <<rng, callVars, genVars, train, val, extra, p_opts, seedings>>

CellErrVal == ErrorsCell("err_val", val)
CellErrExtra == ErrorsCell("err_extra", extra)

RunInit == \E r \in 0..Modulus - 1 : Fresh(r, <<>>)
RunNext ==
    \/ CellSeed \/ CellGenTrain \/ CellGenVal \/ CellGenExtra
    \/ CellFit \/ CellErrVal \/ CellErrExtra
SpecRun == RunInit /\ [][RunNext]_vars

(***************************************************************************)
(* C9: in the run, every sample set and every coefficient vector already   *)
(* produced stays as it is in every later step; the steps of the fits and  *)
(* of the error evaluations (compute_params, compute_errors, fit_func)     *)
(* leave the random stream as it is; a generator step changes only the     *)
(* random stream, besides binding the sample set it returns.               *)
(***************************************************************************)
C9_Frame ==
    [][/\ train.def => train' = train
       /\ val.def => val' = val
       /\ extra.def => extra' = extra
       /\ p_opts # <<>> => p_opts' = p_opts
       /\ (pc = "fit" /\ pc' # "failed") =>
             SubSeq(IF pc' = "fit" THEN acc' ELSE p_opts', 1, Len(acc)) = acc
       /\ pc \in {"fit", "err_val", "err_extra"} => rng' = rng
       /\ pc \in {"gen_train", "gen_val", "gen_extra"} =>
             /\ <<p_opts, errors, acc, seedings>>' = <<p_opts, errors, acc, seedings>>
             /\ Cardinality({s \in {"train", "val", "extra"} :
                    [train |-> train', val |-> val', extra |-> extra'][s]
                    # [train |-> train, val |-> val, extra |-> extra][s]}) = 1
      ]_vars

C9_Witness ==
    /\ pc = "done" /\ train.def /\ val.def /\ extra.def
    /\ Len(p_opts) = LastDegree /\ p_opts[2][3] = NaN /\ Len(errors) = LastDegree

(***************************************************************************)
(* C10: in every run the stream is seeded once, before the first sample    *)
(* set is generated, and never again; the three sample sets are generated  *)
(* before the first fit; the error of a degree is evaluated only after the *)
(* fits, on the vector fitted for that degree; and each of the six vectors *)
(* has length degree + 1, the length of the all-ones guess handed to the   *)
(* solver for it.                                                          *)
(***************************************************************************)
C10_RunOrder ==
    /\ seedings <= 1
    /\ (train.def \/ val.def \/ extra.def) => seedings = 1
    /\ (solver # <<>> \/ acc # <<>> \/ p_opts # <<>>) => (train.def /\ val.def /\ extra.def)
    /\ p_opts # <<>> =>
          /\ Len(p_opts) = LastDegree
          /\ \A d \in 1..LastDegree : Len(p_opts[d]) = d + 1
    /\ (pc = "fit" /\ acc # <<>>) =>
          /\ \A d \in 1..Len(acc) : Len(acc[d]) = d + 1
          /\ solver[1].p0 = [i \in 1..Len(acc) + 1 |-> Fin(1)]
    /\ (pc \in {"err_val", "err_extra"} /\ acc # <<>>) =>
          (Len(p_opts) = LastDegree /\ Len(acc) <= Len(p_opts))
    /\ errors # <<>> => (Len(p_opts) = LastDegree /\ Len(errors) = LastDegree)
    /\ pc = "done" => (Len(p_opts) = LastDegree /\ Len(errors) = LastDegree)

C10_Witness ==
    /\ pc = "done" /\ seedings = 1
    /\ Len(p_opts) = LastDegree /\ \A d \in 1..LastDegree : AllFinite(p_opts[d])
    /\ Len(errors) = LastDegree

====
